---- MODULE Spec2Model ----
(***************************************************************************)
(* FootyStatsSpider (soccer_stats/spiders/footy_stats_spider.py) as a      *)
(* state machine.  The crawl engine holds a set of scheduled requests; one *)
(* action per spider callback takes a scheduled request together with the  *)
(* page the site answers with, runs the callback to the end of its         *)
(* generator (or to the exception that ends it) and hands everything it    *)
(* yielded to the engine: items to the sink, requests to the scheduler.    *)
(*                                                                         *)
(* Pages are abstracted to what the callbacks' XPath queries select from   *)
(* them.  Items are records whose DOMAIN is the set of populated fields,   *)
(* as in scrapy.Item, where item['f'] on an unpopulated field raises       *)
(* KeyError.  Of the League and Match fields only those a callback reads   *)
(* back or that carry context are kept (country, title, season, hash,      *)
(* blocked; league_hash, timestamp, home_team, away_team, hash); the other *)
(* loader fields are written once and never read by the spider.            *)
(***************************************************************************)
EXTENDS Integers, Sequences, FiniteSets, TLC

VARIABLES
    started,    \* start_requests has run
    pending,    \* requests scheduled and not yet answered
    nreq,       \* number of requests issued so far (ids are 1..nreq)
    heap,       \* the item objects created so far, in their current state
    sink,       \* what the sink received, in order: object, state when yielded
    last,       \* the latest callback run: request, page, what it yielded
    failed,     \* ids of the requests whose fetch failed
    mongo       \* the StatsMongoClient of mongo.py and the calls made on it

vars == <<started, pending, nreq, heap, sink, last, failed, mongo>>

(***************************************************************************)
(* Bounds of the model.                                                    *)
(***************************************************************************)
MaxGroups == 2      \* country groups on a leagues-index page
MaxLinks == 2       \* league links in one country group
MaxSeasons == 1     \* season-selector entries on a league page
MaxMatches == 2     \* match links on a matches-list page
MaxRequests == 5    \* requests issued in one crawl
MaxCalls == 3       \* reads and assignments of StatsMongoClient.collection

(***************************************************************************)
(* Values.                                                                 *)
(***************************************************************************)
None == "<None>"

base_url == "https://footystats.org"

make_url(path) == base_url \o "/" \o path

SeqsUpTo(S, n) == UNION {[1..k -> S] : k \in 0..n}

\* dict.get(key): the value, or None
get(d, key) == IF key \in DOMAIN d THEN d[key] ELSE None

\* item[key] = value
SetItem(item, key, value) ==
    [f \in DOMAIN item \cup {key} |-> IF f = key THEN value ELSE item[f]]

(***************************************************************************)
(* The digest: md5(str(fields).encode()).hexdigest().  str of a list of    *)
(* strings is Python's list display of their reprs; the strings of the     *)
(* model hold no quote or backslash, so a repr is the string in single     *)
(* quotes.  md5 is kept as an uninterpreted symbol applied to its input.   *)
(***************************************************************************)
repr(s) == "'" \o s \o "'"

RECURSIVE JoinReprs(_)
JoinReprs(fields) ==
    IF Len(fields) = 0 THEN ""
    ELSE IF Len(fields) = 1 THEN repr(fields[1])
    ELSE repr(fields[1]) \o ", " \o JoinReprs(Tail(fields))

str(fields) == "[" \o JoinReprs(fields) \o "]"

md5(s) == "md5(" \o s \o ")"

(***************************************************************************)
(* ItemLoader.  add_value/add_xpath collect a list of values per field; a  *)
(* field that collected nothing is not in the loader at all.  load_item    *)
(* stores the output processor's value for every collected field unless    *)
(* that value is None.  The output processor is declared with the item     *)
(* classes (soccer_stats/items.py): take the first non-empty value.        *)
(***************************************************************************)
TakeFirst(values) ==
    LET idx == {i \in 1..Len(values) : values[i] # ""}
    IN  IF idx = {} THEN None
        ELSE values[CHOOSE m \in idx : \A n \in idx : m <= n]

load_item(collected) ==
    [f \in {g \in DOMAIN collected :
                /\ collected[g] # <<>>
                /\ TakeFirst(collected[g]) # None}
        |-> TakeFirst(collected[f])]

\* loader.add_value(field, kwargs.get(key)): nothing is added for None
add_value(kwargs, key) ==
    IF get(kwargs, key) = None THEN <<>> ELSE <<get(kwargs, key)>>

(***************************************************************************)
(* What a callback yields: items (the object, local to the run, and its    *)
(* state at the yield) and requests.                                       *)
(***************************************************************************)
YItem(kind, obj, item) == [y |-> "item", kind |-> kind, obj |-> obj, snap |-> item]

YRequest(cls, method, url, callback, formdata, cb_kwargs) ==
    [y |-> "request", cls |-> cls, method |-> method, url |-> url,
     callback |-> callback, formdata |-> formdata, cb_kwargs |-> cb_kwargs]

NoForm == [f \in {} |-> ""]

\* the run of a generator: its yields in order, the final state of the
\* objects it created, and whether an exception ended it
Run(yields, objs, raised) == [yields |-> yields, objs |-> objs, raised |-> raised]

(***************************************************************************)
(* start_requests                                                          *)
(***************************************************************************)
start_requests_run ==
    Run(<<YRequest("Request", "GET", make_url("/leagues/"), "parse_leagues", NoForm, NoForm)>>,
        <<>>, FALSE)

(***************************************************************************)
(* parse_leagues.  The page is the list of div.pt2e selectors, each with   *)
(* its attributes and the hrefs of its league anchors.                     *)
(***************************************************************************)
CountryIds == {"england", "spain"}
LeagueUrls == {"/england/premier-league", "/spain/la-liga"}

CountrySelectors ==
    {[attrib |-> a, leagues_urls |-> u] :
        a \in {NoForm} \cup {[id |-> c] : c \in CountryIds},
        u \in SeqsUpTo(LeagueUrls, MaxLinks)}

LeaguesPages == SeqsUpTo(CountrySelectors, MaxGroups)

\* a slip: cb_kwargs left out of response.follow
FollowLeagues_no_kwargs(country, leagues_urls) ==
    [i \in 1..Len(leagues_urls) |->
        YRequest("follow", "GET", leagues_urls[i], "parse_league", NoForm, NoForm)]

\* the inner loop: one response.follow per league url of the group
FollowLeagues(country, leagues_urls) ==
    [i \in 1..Len(leagues_urls) |->
        YRequest("follow", "GET", leagues_urls[i], "parse_league", NoForm,
                 [country |-> country])]

RECURSIVE parse_leagues_from(_, _)
parse_leagues_from(country_selectors, i) ==
    IF i > Len(country_selectors) THEN Run(<<>>, <<>>, FALSE)
    ELSE IF "id" \notin DOMAIN country_selectors[i].attrib
    THEN Run(<<>>, <<>>, TRUE)      \* selector.attrib['id']: KeyError
    ELSE LET rest == parse_leagues_from(country_selectors, i + 1)
         IN  Run(FollowLeagues(country_selectors[i].attrib.id,
                               country_selectors[i].leagues_urls) \o rest.yields,
                 <<>>, rest.raised)

parse_leagues(response, kwargs) == parse_leagues_from(response, 1)

(***************************************************************************)
(* parse_league.  The page is the list of season-selector anchors, each    *)
(* the dictionary of its attributes.                                       *)
(***************************************************************************)
SeasonAttrs == {"data-hash", "data-zzz", "data-zzzz", "data-z"}

AttrValue(name) ==
    CASE name = "data-hash" -> "h7"
      [] name = "data-zzz" -> "z3"
      [] name = "data-zzzz" -> "z4"
      [] name = "data-z" -> "z1"

SeasonAnchors == {[a \in S |-> AttrValue(a)] : S \in SUBSET SeasonAttrs}

LeaguePages == SeqsUpTo(SeasonAnchors, MaxSeasons)

RECURSIVE parse_league_from(_, _, _)
parse_league_from(seasons, kwargs, i) ==
    IF i > Len(seasons) THEN Run(<<>>, <<>>, FALSE)
    ELSE IF ~(SeasonAttrs \subseteq DOMAIN seasons[i])
    THEN Run(<<>>, <<>>, TRUE)      \* season.attrib[...]: KeyError
    ELSE LET rest == parse_league_from(seasons, kwargs, i + 1)
             params == [hash |-> seasons[i]["data-hash"],
                        zzz |-> seasons[i]["data-zzz"],
                        zzzz |-> seasons[i]["data-zzzz"],
                        cur |-> seasons[i]["data-z"]]
         IN  Run(<<YRequest("FormRequest", "POST", make_url("ajax_league.php"),
                            "parse_season", params,
                            [country |-> get(kwargs, "country")])>>
                 \o rest.yields, <<>>, rest.raised)

parse_league(response, kwargs) == parse_league_from(response, kwargs, 1)

(***************************************************************************)
(* parse_season.  The page is what the title and season queries extract    *)
(* and the attributes of the matches link (none when no element matches).  *)
(***************************************************************************)
Titles == {<<>>, <<"Premier League">>}
Seasons == {<<>>, <<"2020/2021">>, <<"2021/2022">>}
Hrefs == {"", "#", "/england/premier-league/matches"}
MatchesAttrs == {"data-hash", "data-zzz", "data-z"}

\* a link that is not the "#" sentinel is drawn with all of the data
\* attributes or none of them: only the "#" branch reads them
MatchesLinks ==
    {[a \in S \cup {"href"} |-> IF a = "href" THEN "#" ELSE AttrValue(a)] :
        S \in SUBSET MatchesAttrs}
    \cup {[a \in S |-> AttrValue(a)] : S \in {{}, MatchesAttrs}}
    \cup {[a \in S \cup {"href"} |-> IF a = "href" THEN h ELSE AttrValue(a)] :
            S \in {{}, MatchesAttrs}, h \in Hrefs \ {"#"}}

SeasonPages ==
    {[title |-> t, season |-> s, matches |-> m] :
        t \in Titles, s \in Seasons, m \in MatchesLinks}

\* a slip: the two fields in the other order
league_hash_fields_swapped(league) == <<league.season, league.title>>

\* the fields the League hash is computed over
league_hash_fields(league) == <<league.title, league.season>>

\* a slip: `href is None` in place of `not href`
not_href_none_only(href) == href = None

\* `not href`: None and the empty string are false
not_href(href) == href = None \/ href = ""

\* branch `href == '#'`: the POST for the matches list
matches_form_request(matches, league) ==
    YRequest("FormRequest", "POST", make_url("ajax_league.php"), "parse_matches",
             [hash |-> matches["data-hash"],
              zzz |-> matches["data-zzz"],
              cur |-> matches["data-z"]],
             [league_hash |-> league.hash])

\* a slip: the flag is not set before the league is yielded again
blocked_league_unflagged(league) == league

\* branch `not href`: league['blocked'] = True, on the object already yielded
blocked_league(league) == SetItem(league, "blocked", "True")

\* a slip: the title handed on in place of the hash
follow_matches_title(href, league) ==
    YRequest("follow", "GET", href, "parse_matches", NoForm, [league_hash |-> league.title])

\* the last branch: the link is followed
follow_matches(href, league) ==
    YRequest("follow", "GET", href, "parse_matches", NoForm, [league_hash |-> league.hash])

\* a slip: `if` in place of `elif`/`else`, the blocked league falls through
\* to the follow
after_blocked_follows(href, league) == <<follow_matches(href, league)>>

\* what the `not href` branch yields after the flagged league: the `else`
\* is not entered, the generator ends
after_blocked(href, league) == <<>>

parse_season(response, kwargs) ==
    LET loaded == load_item([country |-> add_value(kwargs, "country"),
                             title |-> response.title,
                             season |-> response.season])
        matches == response.matches
        href == get(matches, "href")
    IN  IF ~({"title", "season"} \subseteq DOMAIN loaded)
        THEN Run(<<>>, <<loaded>>, TRUE)    \* league['title'] / league['season']: KeyError
        ELSE
        LET league == SetItem(loaded, "hash", md5(str(league_hash_fields(loaded))))
            first == YItem("League", 1, league)
        IN  IF href = "#"
            THEN IF ~(MatchesAttrs \subseteq DOMAIN matches)
                 THEN Run(<<first>>, <<league>>, TRUE)   \* matches.attrib[...]: KeyError
                 ELSE Run(<<first, matches_form_request(matches, league)>>,
                          <<league>>, FALSE)
            ELSE IF not_href(href)
            THEN LET blocked == blocked_league(league)
                 IN  Run(<<first, YItem("League", 1, blocked)>>
                         \o after_blocked(href, league), <<blocked>>, FALSE)
            ELSE Run(<<first, follow_matches(href, league)>>, <<league>>, FALSE)

(***************************************************************************)
(* parse_matches.  The page is the list of match hrefs of the table.       *)
(***************************************************************************)
MatchUrls == {"/match/1", "/match/2"}

MatchesPages == SeqsUpTo(MatchUrls, MaxMatches)

\* a slip: the request comes back to parse_matches
splash_request_same_callback(match, kwargs) ==
    YRequest("SplashRequest", "GET", make_url(match), "parse_matches", NoForm,
             [league_hash |-> get(kwargs, "league_hash")])

\* a slip: the hash looked up under another key
splash_request_wrong_key(match, kwargs) ==
    YRequest("SplashRequest", "GET", make_url(match), "parse_match", NoForm,
             [league_hash |-> get(kwargs, "hash")])

\* the body of the loop: the rendered fetch of one match page
splash_request(match, kwargs) ==
    YRequest("SplashRequest", "GET", make_url(match), "parse_match", NoForm,
             [league_hash |-> get(kwargs, "league_hash")])

parse_matches(response, kwargs) ==
    Run([i \in 1..Len(response) |-> splash_request(response[i], kwargs)],
        <<>>, FALSE)

(***************************************************************************)
(* parse_match.  The page is what the timestamp and team queries extract   *)
(* and whether the statistics panel div is there.                          *)
(***************************************************************************)
Timestamps == {<<>>, <<"1600000000">>}
HomeTeams == {<<>>, <<"Arsenal">>}
AwayTeams == {<<>>, <<"Chelsea">>}

MatchPages ==
    {[timestamp |-> t, home_team |-> h, away_team |-> a, panel |-> p] :
        t \in Timestamps, h \in HomeTeams, a \in AwayTeams, p \in BOOLEAN}

\* a slip: the away team left out of the hash
match_hash_fields_short(match) ==
    <<match.league_hash, match.timestamp, match.home_team>>

\* the fields the Match hash is computed over
match_hash_fields(match) ==
    <<match.league_hash, match.timestamp, match.home_team, match.away_team>>

\* `if response.xpath('//div[@class="w100 cf ac"]')`: the statistics item
post_match_statistics(response, match) ==
    IF response.panel
    THEN <<YItem("PostMatchStatistics", 2, load_item([match_hash |-> <<match.hash>>]))>>
    ELSE <<>>

parse_match(response, kwargs) ==
    LET loaded == load_item([league_hash |-> add_value(kwargs, "league_hash"),
                             timestamp |-> response.timestamp,
                             home_team |-> response.home_team,
                             away_team |-> response.away_team])
    IN  IF ~({"league_hash", "timestamp", "home_team", "away_team"}
                \subseteq DOMAIN loaded)
        THEN Run(<<>>, <<loaded>>, TRUE)    \* match[...]: KeyError
        ELSE
        LET match == SetItem(loaded, "hash", md5(str(match_hash_fields(loaded))))
            statistics == post_match_statistics(response, match)
        IN  Run(<<YItem("Match", 1, match)>> \o statistics,
                <<match>> \o [i \in 1..Len(statistics) |-> statistics[i].snap],
                FALSE)

(***************************************************************************)
(* The engine: what becomes of a run's yields.  A scheduled request keeps  *)
(* where it came from: the request that issued it and that one's callback, *)
(* the country group of the leagues-index page its chain started from, the *)
(* season-detail request of its chain (0 above that stage), and how many   *)
(* items the sink had received when it was yielded.  An item in the sink   *)
(* keeps the request whose callback yielded it and that request's chain.   *)
(***************************************************************************)
ItemsOf(run) == SelectSeq(run.yields, LAMBDA y : y.y = "item")
RequestsOf(run) == SelectSeq(run.yields, LAMBDA y : y.y = "request")

\* the number of items a run yielded before its i-th request
ItemsBefore(run, i) ==
    LET k == CHOOSE k \in 1..Len(run.yields) :
                 /\ run.yields[k].y = "request"
                 /\ Cardinality({j \in 1..k : run.yields[j].y = "request"}) = i
    IN  Cardinality({j \in 1..k : run.yields[j].y = "item"})

\* the league anchors of a leagues-index page, in document order, each
\* with the id of the country group that contains it
RECURSIVE Anchors(_)
Anchors(groups) ==
    IF groups = <<>> THEN <<>>
    ELSE [i \in 1..Len(groups[1].leagues_urls) |->
             [url |-> groups[1].leagues_urls[i],
              country |-> get(groups[1].attrib, "id")]]
         \o Anchors(Tail(groups))

\* the season-detail request of the chain that r's callback continues
SeasonOf(r) == IF r.request.callback = "parse_season" THEN r.id ELSE r.season

\* the requests of a run, numbered in the order they were yielded
Scheduled(run, r, origins) ==
    {[id |-> nreq + i, parent |-> r.id, from |-> r.request.callback,
      request |-> RequestsOf(run)[i], origin |-> origins[i],
      season |-> SeasonOf(r), after |-> Len(sink) + ItemsBefore(run, i)] :
        i \in 1..Len(RequestsOf(run))}

\* the items of a run as the sink receives them
Received(run, r) ==
    [i \in 1..Len(ItemsOf(run)) |->
        [obj |-> Len(heap) + ItemsOf(run)[i].obj, by |-> r.id,
         kind |-> ItemsOf(run)[i].kind, snap |-> ItemsOf(run)[i].snap,
         origin |-> r.origin, season |-> SeasonOf(r)]]

\* request r is done: what ran for it yielded `run`
Done(r, run, origins) ==
    /\ nreq + Len(RequestsOf(run)) <= MaxRequests
    /\ pending' = (pending \ {r}) \cup Scheduled(run, r, origins)
    /\ nreq' = nreq + Len(RequestsOf(run))
    /\ heap' = heap \o run.objs
    /\ sink' = sink \o Received(run, r)
    /\ UNCHANGED <<started, last, mongo>>

\* the response of r arrived and its callback yielded `run`
Handle(r, run, origins) ==
    /\ Done(r, run, origins)
    /\ UNCHANGED failed

\* the requests of a run below the leagues index stay in their parent's chain
Inherited(r, run) == [i \in 1..Len(RequestsOf(run)) |-> r.origin]

\* what start_requests is run for: the spider itself, no request
TheSpider == [id |-> 0, season |-> 0, request |-> [callback |-> "start_requests"]]

StartRequests ==
    /\ ~started
    /\ started' = TRUE
    /\ pending' = Scheduled(start_requests_run, TheSpider, <<None>>)
    /\ nreq' = nreq + Len(RequestsOf(start_requests_run))
    /\ UNCHANGED <<heap, sink, last, failed, mongo>>

\* a run of parse_leagues together with the country group of each anchor
\* that got a request
LeaguesRuns ==
    {LET run == parse_leagues(page, NoForm)    \* parse_leagues takes no kwargs
     IN  [run |-> run,
          origins |-> [i \in 1..Len(RequestsOf(run)) |-> Anchors(page)[i].country]] :
        page \in LeaguesPages}

ParseLeagues ==
    \E r \in pending :
        /\ r.request.callback = "parse_leagues"
        /\ \E out \in LeaguesRuns :
                Handle(r, out.run, out.origins)

ParseLeague ==
    \E r \in pending :
        /\ r.request.callback = "parse_league"
        /\ \E run \in {parse_league(page, r.request.cb_kwargs) : page \in LeaguePages} :
                Handle(r, run, Inherited(r, run))

ParseSeason ==
    \E r \in pending :
        /\ r.request.callback = "parse_season"
        /\ \E run \in {parse_season(page, r.request.cb_kwargs) : page \in SeasonPages} :
                Handle(r, run, Inherited(r, run))

ParseMatches ==
    \E r \in pending :
        /\ r.request.callback = "parse_matches"
        /\ \E run \in {parse_matches(page, r.request.cb_kwargs) : page \in MatchesPages} :
                Handle(r, run, Inherited(r, run))

ParseMatch ==
    \E r \in pending :
        /\ r.request.callback = "parse_match"
        /\ \E run \in {parse_match(page, r.request.cb_kwargs) : page \in MatchPages} :
                Handle(r, run, Inherited(r, run))

\* a slip: an errback that sends the request again
errback_retries(r) == Run(<<r.request>>, <<>>, FALSE)

\* what the spider does about a failed fetch: no request it builds names an
\* errback, so nothing of the spider runs
errback(r) == Run(<<>>, <<>>, FALSE)

\* the fetch of a scheduled request fails (timeout, HTTP error)
FetchFailed ==
    \E r \in pending :
        /\ failed' = failed \cup {r.id}
        /\ Done(r, errback(r), Inherited(r, errback(r)))

\* mongo.py is not imported by the spider: a crawl has no client
NoClient == [attrs |-> <<>>, truth |-> FALSE, calls |-> <<>>, outcome |-> <<>>]

NoCall == [callback |-> "none", page |-> <<>>, kwargs |-> NoForm,
           run |-> Run(<<>>, <<>>, FALSE)]

Init ==
    /\ started = FALSE
    /\ pending = {}
    /\ nreq = 0
    /\ heap = <<>>
    /\ sink = <<>>
    /\ last = NoCall
    /\ failed = {}
    /\ mongo = NoClient

Next ==
    \/ StartRequests
    \/ FetchFailed
    \/ ParseLeagues
    \/ ParseLeague
    \/ ParseSeason
    \/ ParseMatches
    \/ ParseMatch

\* the crawl: every order in which the site's answers can arrive
Spec == Init /\ [][Next]_vars

\* the engine keeps delivering: a crawl with a request in flight, or not
\* yet started, does not stand still for ever
FairSpec == Spec /\ WF_vars(Next)

(***************************************************************************)
(* One callback applied to one page: the callbacks read nothing but their  *)
(* response and their keyword arguments, so what a single run yields is    *)
(* checked over every page and every context the crawl can hand it.        *)
(***************************************************************************)
CountryKwargs == {[country |-> c] : c \in CountryIds}

LeagueHashKwargs ==
    {[league_hash |-> md5(str(<<t[1], s[1]>>))] :
        t \in Titles \ {<<>>}, s \in Seasons \ {<<>>}}

Call(callback, page, kwargs, run) ==
    /\ last' = [callback |-> callback, page |-> page, kwargs |-> kwargs, run |-> run]
    /\ UNCHANGED <<started, pending, nreq, heap, sink, failed, mongo>>

CallParseLeagues ==
    /\ last = NoCall
    /\ \E page \in LeaguesPages :
            Call("parse_leagues", page, NoForm, parse_leagues(page, NoForm))

CallParseLeague ==
    /\ last = NoCall
    /\ \E page \in LeaguePages, kwargs \in CountryKwargs :
            Call("parse_league", page, kwargs, parse_league(page, kwargs))

CallParseSeason ==
    /\ last = NoCall
    /\ \E page \in SeasonPages, kwargs \in CountryKwargs :
            Call("parse_season", page, kwargs, parse_season(page, kwargs))

CallParseMatches ==
    /\ last = NoCall
    /\ \E page \in MatchesPages, kwargs \in LeagueHashKwargs :
            Call("parse_matches", page, kwargs, parse_matches(page, kwargs))

CallParseMatch ==
    /\ last = NoCall
    /\ \E page \in MatchPages, kwargs \in LeagueHashKwargs :
            Call("parse_match", page, kwargs, parse_match(page, kwargs))

CallNext ==
    \/ CallParseLeagues
    \/ CallParseLeague
    \/ CallParseSeason
    \/ CallParseMatches
    \/ CallParseMatch

CallSpec == Init /\ [][CallNext]_vars

(***************************************************************************)
(* mongo.py: StatsMongoClient.  `attrs` is the instance's attributes by    *)
(* their unmangled names (a record: an attribute never assigned is not in  *)
(* its DOMAIN, and reading it raises AttributeError).  A collection of the *)
(* database is written by its name.  `truth` is whether the installed      *)
(* pymongo lets a Collection be truth-tested: up to 3.x any Collection is  *)
(* true, from 4.0 bool() of one raises NotImplementedError; the            *)
(* repository pins no version.  `calls` are the reads and assignments of   *)
(* `collection` so far, `outcome` what the latest of them came to.         *)
(***************************************************************************)
CollectionNames == {"leagues", "matches", "statistics"}

\* self.__database[collection]
Collection(database, name) == database \o "." \o name

Returned(value) == [returned |-> value]
Raised(exception) == [raised |-> exception]

\* __init__: the connection and the database, and no __collection
StatsMongoClient(uri, database, truth) ==
    [attrs |-> [connection |-> uri, database |-> database],
     truth |-> truth, calls |-> <<>>, outcome |-> Returned(None)]

\* the getter of the property
collection(self) ==
    IF "collection" \notin DOMAIN self.attrs THEN Raised("AttributeError")
    ELSE IF ~self.truth THEN Raised("NotImplementedError")
    ELSE Returned(self.attrs.collection)    \* a Collection is true

\* the setter of the property
collection_setter(self, name) ==
    [a \in DOMAIN self.attrs \cup {"collection"} |->
        IF a = "collection" THEN Collection(self.attrs.database, name) ELSE self.attrs[a]]

GetCollection ==
    /\ Len(mongo.calls) < MaxCalls
    /\ mongo' = [mongo EXCEPT !.calls = Append(@, <<"get">>),
                              !.outcome = collection(mongo)]
    /\ UNCHANGED <<started, pending, nreq, heap, sink, last, failed>>

SetCollection ==
    /\ Len(mongo.calls) < MaxCalls
    /\ \E name \in CollectionNames :
            mongo' = [mongo EXCEPT !.attrs = collection_setter(mongo, name),
                                  !.calls = Append(@, <<"set", name>>),
                                  !.outcome = Returned(None)]
    /\ UNCHANGED <<started, pending, nreq, heap, sink, last, failed>>

\* mongo_client = StatsMongoClient(MONGO_URI, MONGO_DATABASE), under either
\* pymongo
MongoInit ==
    /\ started = FALSE
    /\ pending = {}
    /\ nreq = 0
    /\ heap = <<>>
    /\ sink = <<>>
    /\ last = NoCall
    /\ failed = {}
    /\ mongo \in {StatsMongoClient("MONGO_URI", "MONGO_DATABASE", t) : t \in BOOLEAN}

MongoNext ==
    \/ GetCollection
    \/ SetCollection

MongoSpec == MongoInit /\ [][MongoNext]_vars

(***************************************************************************)
(* Properties.  Those of a single callback run are stated on `last` and    *)
(* checked under CallSpec; those of a whole crawl are stated on `sink` and *)
(* `heap` and checked under Spec.                                          *)
(***************************************************************************)
LastItems == ItemsOf(last.run)
LastRequests == RequestsOf(last.run)

\* a League item of the latest run that carries blocked = True
LastBlocked == \E i \in 1..Len(LastItems) : get(LastItems[i].snap, "blocked") = "True"

\* the title and season queries of the latest parse_season page both matched
HashInputsExtracted == last.page.title # <<>> /\ last.page.season # <<>>

AjaxUrl == "https://footystats.org/ajax_league.php"

SeasonNoHref ==
    /\ last.callback = "parse_season"
    /\ "href" \notin DOMAIN last.page.matches

\* C1 as stated: a season-detail page whose matches link has no href makes
\* parse_season emit exactly one League record, with blocked = True, and
\* issue no request.  Stated for the runs that no exception ends, which
\* the claim covers.
C1_OneBlockedLeague ==
    (SeasonNoHref /\ ~last.run.raised) =>
        /\ Len(LastItems) = 1
        /\ LastItems[1].kind = "League"
        /\ get(LastItems[1].snap, "blocked") = "True"
        /\ Len(LastRequests) = 0

\* C1 amended: on such a page parse_season issues no request; when title
\* and season were both extracted it yields the League twice, the same
\* object, first with blocked unset and then with blocked = True, so that
\* exactly one emission carries the flag; when either is missing it raises
\* before yielding anything.
C1_LeagueThenBlockedLeague ==
    SeasonNoHref =>
        /\ Len(LastRequests) = 0
        /\ IF HashInputsExtracted
           THEN /\ ~last.run.raised
                /\ Len(LastItems) = 2
                /\ \A i \in 1..2 : LastItems[i].kind = "League"
                /\ "blocked" \notin DOMAIN LastItems[1].snap
                /\ LastItems[2].obj = LastItems[1].obj
                /\ LastItems[2].snap = SetItem(LastItems[1].snap, "blocked", "True")
           ELSE /\ last.run.raised
                /\ Len(LastItems) = 0

C1_Witness ==
    /\ SeasonNoHref
    /\ Len(LastItems) = 2
    /\ get(LastItems[2].snap, "blocked") = "True"

\* C2: a season-detail page whose matches link has href "#" makes
\* parse_season emit exactly one League record with blocked unset and
\* issue exactly one request, a form POST to the AJAX endpoint with
\* callback parse_matches.
C2_SentinelFormPost ==
    (last.callback = "parse_season" /\ get(last.page.matches, "href") = "#") =>
        /\ Len(LastItems) = 1
        /\ LastItems[1].kind = "League"
        /\ "blocked" \notin DOMAIN LastItems[1].snap
        /\ Len(LastRequests) = 1
        /\ LastRequests[1].cls = "FormRequest"
        /\ LastRequests[1].method = "POST"
        /\ LastRequests[1].url = AjaxUrl
        /\ LastRequests[1].callback = "parse_matches"

\* C3: the hash computation has no error condition: whatever the queries
\* for the hash inputs match, parse_season still emits a League record
\* with its digest and parse_match still emits a Match record with its
\* digest.
C3_HashNeverAborts ==
    /\ last.callback = "parse_season" =>
          \E i \in 1..Len(LastItems) :
              LastItems[i].kind = "League" /\ "hash" \in DOMAIN LastItems[i].snap
    /\ last.callback = "parse_match" =>
          \E i \in 1..Len(LastItems) :
              LastItems[i].kind = "Match" /\ "hash" \in DOMAIN LastItems[i].snap

\* C4: a match-detail page without the statistics panel makes parse_match
\* emit exactly one Match record, no PostMatchStatistics record and no
\* request.
C4_NoPanelOneMatch ==
    (last.callback = "parse_match" /\ ~last.page.panel) =>
        /\ Len(LastItems) = 1
        /\ LastItems[1].kind = "Match"
        /\ Len(LastRequests) = 0

\* C5: on a leagues-index page parse_leagues emits no record and exactly
\* one link-follow request per league anchor, each carrying the id of the
\* country group that contains the anchor.
C5_OneFollowPerAnchor ==
    last.callback = "parse_leagues" =>
        /\ Len(LastItems) = 0
        /\ Len(LastRequests) = Len(Anchors(last.page))
        /\ \A i \in 1..Len(LastRequests) :
              /\ LastRequests[i].cls = "follow"
              /\ LastRequests[i].callback = "parse_league"
              /\ LastRequests[i].url = Anchors(last.page)[i].url
              /\ LastRequests[i].cb_kwargs = [country |-> Anchors(last.page)[i].country]

\* C6: every League record the sink received, the re-emission with
\* blocked = True included, carries the digest of the title and season it
\* carries itself: hash = md5 of "['<title>', '<season>']".
C6_LeagueHashOfOwnFields ==
    \A i \in 1..Len(sink) :
        sink[i].kind = "League" =>
            /\ {"title", "season", "hash"} \subseteq DOMAIN sink[i].snap
            /\ sink[i].snap.hash =
                  "md5(['" \o sink[i].snap.title \o "', '"
                           \o sink[i].snap.season \o "'])"

C6_Witness ==
    \E i, j \in 1..Len(sink) :
        /\ i < j
        /\ sink[i].kind = "League" /\ sink[j].kind = "League"
        /\ sink[i].snap.hash # sink[j].snap.hash
        /\ \E k \in 1..Len(sink) : get(sink[k].snap, "blocked") = "True"

\* C7: every Match record the sink received carries the digest of the
\* league_hash, timestamp, home_team and away_team it carries itself.
C7_MatchHashOfOwnFields ==
    \A i \in 1..Len(sink) :
        sink[i].kind = "Match" =>
            /\ {"league_hash", "timestamp", "home_team", "away_team", "hash"}
                  \subseteq DOMAIN sink[i].snap
            /\ sink[i].snap.hash =
                  "md5(['" \o sink[i].snap.league_hash \o "', '"
                           \o sink[i].snap.timestamp \o "', '"
                           \o sink[i].snap.home_team \o "', '"
                           \o sink[i].snap.away_team \o "'])"

C7_Witness ==
    \E i \in 1..Len(sink) :
        /\ sink[i].kind = "Match"
        /\ sink[i].snap.away_team = "Chelsea"

\* C9: a record that was handed to the sink is never changed afterwards:
\* every emitted object is still in the state it was emitted in.
C9_EmittedNeverMutated ==
    \A i \in 1..Len(sink) : heap[sink[i].obj] = sink[i].snap

\* C10 as stated: parse_season takes exactly one of three branches:
\* blocked = True and no request exactly when the href attribute is absent;
\* one form POST when href is "#"; one direct follow of the href, blocked
\* unset, for every other href that is present.  Stated for the runs that
\* no exception ends, which the claim covers.
C10_BranchByHref ==
    (last.callback = "parse_season" /\ ~last.run.raised) =>
        LET matches == last.page.matches
        IN  /\ "href" \notin DOMAIN matches =>
                  LastBlocked /\ Len(LastRequests) = 0
            /\ get(matches, "href") = "#" =>
                  /\ ~LastBlocked
                  /\ Len(LastRequests) = 1
                  /\ LastRequests[1].cls = "FormRequest"
            /\ ("href" \in DOMAIN matches /\ matches.href # "#") =>
                  /\ ~LastBlocked
                  /\ Len(LastRequests) = 1
                  /\ LastRequests[1].cls = "follow"
                  /\ LastRequests[1].url = matches.href

\* C10 amended: when title or season is missing parse_season raises before
\* any branch; otherwise it emits the League and takes one branch by the
\* href of the matches link: absent or empty, it flags the League blocked,
\* emits it again and issues no request; "#", it issues one form POST when
\* the link has its three data attributes and raises with no request when
\* it lacks one; any other href, it issues exactly one direct follow of
\* that href.  Blocked stays unset in the last two branches.
C10_BranchByHrefTruth ==
    last.callback = "parse_season" =>
        LET matches == last.page.matches
            href == get(matches, "href")
        IN  IF ~HashInputsExtracted
            THEN last.run.raised /\ Len(last.run.yields) = 0
            ELSE /\ Len(LastItems) >= 1
                 /\ LastItems[1].kind = "League"
                 /\ "blocked" \notin DOMAIN LastItems[1].snap
                 /\ IF "href" \notin DOMAIN matches \/ href = ""
                    THEN /\ ~last.run.raised
                         /\ Len(LastItems) = 2
                         /\ get(LastItems[2].snap, "blocked") = "True"
                         /\ Len(LastRequests) = 0
                    ELSE IF href = "#"
                    THEN /\ ~LastBlocked
                         /\ Len(LastItems) = 1
                         /\ IF \A a \in {"data-hash", "data-zzz", "data-z"} :
                                   a \in DOMAIN matches
                            THEN /\ ~last.run.raised
                                 /\ Len(LastRequests) = 1
                                 /\ LastRequests[1].cls = "FormRequest"
                                 /\ LastRequests[1].method = "POST"
                                 /\ LastRequests[1].url = AjaxUrl
                                 /\ LastRequests[1].callback = "parse_matches"
                            ELSE /\ last.run.raised
                                 /\ Len(LastRequests) = 0
                    ELSE /\ ~last.run.raised
                         /\ ~LastBlocked
                         /\ Len(LastItems) = 1
                         /\ Len(LastRequests) = 1
                         /\ LastRequests[1].cls = "follow"
                         /\ LastRequests[1].url = href
                         /\ LastRequests[1].callback = "parse_matches"

C10_Witness ==
    /\ last.callback = "parse_season"
    /\ get(last.page.matches, "href") = ""
    /\ LastBlocked
    /\ Len(LastRequests) = 0

C12_LeagueCountryOfItsGroup ==
    \A i \in 1..Len(sink) :
        sink[i].kind = "League" =>
            /\ "country" \in DOMAIN sink[i].snap
            /\ sink[i].snap.country = sink[i].origin

C12_Witness ==
    \E i, j \in 1..Len(sink) :
        /\ i < j
        /\ sink[i].kind = "League" /\ sink[j].kind = "League"
        /\ sink[i].snap.country = "spain"
        /\ sink[j].snap.country = "england"

\* C13 as stated: on a match-detail page with the statistics panel
\* parse_match emits exactly two records and no request: the Match, then a
\* PostMatchStatistics whose match_hash is the hash of that Match.
C13_PanelMatchThenStatistics ==
    (last.callback = "parse_match" /\ last.page.panel) =>
        /\ Len(LastItems) = 2
        /\ LastItems[1].kind = "Match"
        /\ LastItems[2].kind = "PostMatchStatistics"
        /\ LastItems[2].snap.match_hash = LastItems[1].snap.hash
        /\ Len(LastRequests) = 0

\* C16: on a matches-list page parse_matches emits no record and exactly
\* one rendered-fetch request per match href found, in page order, each to
\* that href under the base url, each with the league_hash the call
\* received, and each handled by parse_match.
C16_OneSplashPerHref ==
    last.callback = "parse_matches" =>
        /\ ~last.run.raised
        /\ Len(LastItems) = 0
        /\ Len(LastRequests) = Len(last.page)
        /\ \A i \in 1..Len(LastRequests) :
              /\ LastRequests[i].cls = "SplashRequest"
              /\ LastRequests[i].callback = "parse_match"
              /\ LastRequests[i].url = "https://footystats.org/" \o last.page[i]
              /\ LastRequests[i].cb_kwargs = [league_hash |-> last.kwargs.league_hash]

\* parse_matches has run on a page with two different match hrefs
C16_Witness ==
    /\ last.callback = "parse_matches"
    /\ Len(last.page) = 2
    /\ last.page[1] # last.page[2]
    /\ Len(LastRequests) = 2
    /\ LastRequests[1].url # LastRequests[2].url

\* C17 as stated: on a league page parse_league emits no record and exactly
\* one form POST to the ajax endpoint per season-selector entry, with the
\* entry's hash, zzz, zzzz and cur fields and the country the call received.
C17_OnePostPerSeason ==
    last.callback = "parse_league" =>
        /\ Len(LastItems) = 0
        /\ Len(LastRequests) = Len(last.page)
        /\ \A i \in 1..Len(LastRequests) :
              /\ LastRequests[i].cls = "FormRequest"
              /\ LastRequests[i].method = "POST"
              /\ LastRequests[i].url = AjaxUrl
              /\ LastRequests[i].callback = "parse_season"
              /\ DOMAIN LastRequests[i].formdata = {"hash", "zzz", "zzzz", "cur"}
              /\ LastRequests[i].cb_kwargs = [country |-> last.kwargs.country]

\* the stage a callback's requests go to
NextStage(callback) ==
    CASE callback = "start_requests" -> "parse_leagues"
      [] callback = "parse_leagues" -> "parse_league"
      [] callback = "parse_league" -> "parse_season"
      [] callback = "parse_season" -> "parse_matches"
      [] callback = "parse_matches" -> "parse_match"
      [] callback = "parse_match" -> None

\* every request in flight goes to the stage right after its issuer's
StageOrder == \A r \in pending : r.request.callback = NextStage(r.from)

\* the largest number of deliveries a request to a callback can still cause,
\* itself included, on a site of the modelled size
Weight(callback) ==
    CASE callback = "parse_match" -> 1
      [] callback = "parse_matches" -> 1 + MaxMatches
      [] callback = "parse_season" -> 2 + MaxMatches
      [] callback = "parse_league" -> 1 + MaxSeasons * (2 + MaxMatches)
      [] callback = "parse_leagues" ->
            1 + MaxGroups * MaxLinks * (1 + MaxSeasons * (2 + MaxMatches))
      [] OTHER -> 0

RECURSIVE SumWeights(_)
SumWeights(rs) ==
    IF rs = {} THEN 0
    ELSE LET r == CHOOSE r \in rs : TRUE
         IN  Weight(r.request.callback) + SumWeights(rs \ {r})

\* what is left of the crawl
Measure == IF started THEN SumWeights(pending) ELSE 1 + Weight("parse_leagues")

CrawlOver == started /\ pending = {}

\* C14: every request goes to the stage right after the one that issued it
\* (seed, leagues index, league page, season detail, matches list, match
\* detail) and parse_match issues none, so every step of the crawl leaves
\* strictly less to deliver; with responses delivered fairly the crawl
\* reaches a state with no request pending and stays there.
C14_StagesInOrderCrawlEnds ==
    /\ []StageOrder
    /\ [][Measure' < Measure]_vars
    /\ <>[]CrawlOver

\* a crawl that went through every stage down to a Match has ended
C14_Witness ==
    /\ CrawlOver
    /\ \E i \in 1..Len(sink) : sink[i].kind = "Match"
    /\ \E i \in 1..Len(sink) : sink[i].kind = "League"

\* the season-detail requests whose page took the paywall branch: the sink
\* holds their League with blocked = True
BlockedSeasons ==
    {sink[i].by : i \in {k \in 1..Len(sink) : get(sink[k].snap, "blocked") = "True"}}

\* C15: a season-detail page that took the paywall branch ends its branch
\* of the crawl: no request in flight descends from it, and the sink holds
\* nothing but League records from it, at any time.
C15_BlockedSeasonIsTerminal ==
    \A s \in BlockedSeasons :
        /\ \A r \in pending : r.season # s
        /\ \A i \in 1..Len(sink) : sink[i].season = s => sink[i].kind = "League"

\* a crawl has ended after a season-detail page took the paywall branch
C15_Witness ==
    /\ BlockedSeasons # {}
    /\ started
    /\ pending = {}

\* nothing descends from a request whose fetch failed: no request in flight
\* was issued for it (a retry would be one) and no record was yielded for it
FailedBranchEmpty ==
    \A f \in failed :
        /\ \A r \in pending : r.parent # f
        /\ \A i \in 1..Len(sink) : sink[i].by # f

\* a step in which a fetch fails takes that request out of flight and
\* leaves every other request, and the records received so far, as they were
FailureOnlyDrops ==
    failed' # failed =>
        \E r \in pending :
            /\ failed' = failed \cup {r.id}
            /\ pending' = pending \ {r}
            /\ sink' = sink
            /\ heap' = heap
            /\ nreq' = nreq

\* C18: a failed fetch drops its own branch and nothing else: no record
\* and no request, a retry included, ever comes of the failed request, and
\* the step of the failure leaves the other requests in flight and the
\* records already received untouched.
C18_FailedFetchDropsOwnBranch ==
    /\ []FailedBranchEmpty
    /\ [][FailureOnlyDrops]_vars

\* a request failed and a request issued after it went on to emit a record
C18_Witness ==
    \E f \in failed : \E i \in 1..Len(sink) :
        /\ sink[i].by > f
        /\ sink[i].kind = "League"

\* the names assigned to `collection` so far, in order
Assigned == SelectSeq(mongo.calls, LAMBDA c : c[1] = "set")

\* C19 as stated: reading `collection` before any assignment returns None
\* and raises nothing, and after assignments it returns the database's
\* collection of the name assigned last.
C19_CollectionReads ==
    (mongo.calls # <<>> /\ mongo.calls[Len(mongo.calls)][1] = "get") =>
        IF Assigned = <<>>
        THEN mongo.outcome = Returned(None)
        ELSE mongo.outcome =
                Returned(Collection(mongo.attrs.database, Assigned[Len(Assigned)][2]))

====
